---- MODULE Spec2Model ----
(***************************************************************************)
(* OPEN-EYES smart-cane backend: the contact slot allocator                *)
(* (apps/contacts/views.py) and the outbound SMS dispatch                  *)
(* (core/sms/tasks.py, core/sms/services.py).                              *)
(*                                                                         *)
(* Two subsystems share the device table and nothing else:                 *)
(*   - contact registration / update / deletion over the Contact table,    *)
(*   - command jobs (task_envoyer_sms) driving the AT handshake of         *)
(*     GSMHardwareService.envoyer_sms_physique over the serial port.       *)
(* SpecContacts, SpecRegisterRace and SpecDispatch explore them; Spec is   *)
(* their union.  SpecExchange, SpecLifecycle, SpecDeletion and SpecEager   *)
(* follow one job (alone, with devices deleted and lookups failing, and in *)
(* eager mode); SpecPoller and SpecPollerBusy run task_lire_sms_recus.     *)
(***************************************************************************)
EXTENDS Integers, Sequences, FiniteSets, TLC

----------------------------------------------------------------------------
(* Bounds of the exploration *)

\* distinct phone numbers the clients use
NumPhones == 6
\* HTTP registration requests that can be in flight at once
NumReqs == 2
\* contact updates and deletions performed in one run
MaxEdits == 1
\* command jobs submitted in one run
NumJobs == 2
\* inbound messages the module buffers per device
MaxInbox == 5
\* polling cycles in one run
MaxCycles == 3

\* The Canne table of the deployment holds two canes; identifier 3 is not
\* registered, so requests and jobs can name a device that does not exist.
Cannes == {1, 2}
CanneIds == {1, 2, 3}
Phones == 1..NumPhones
Reqs == 1..NumReqs
Jobs == 1..NumJobs

\* role path parameter of the update and delete routes
Roles == {"USER", "ADMIN", "SUPER_ADMIN"}

\* Python None / SQL NULL
None == 0

----------------------------------------------------------------------------
(* Program constants *)

\* range(1, 6) of the free-index scan
RangeStart == 1
RangeStop == 6
\* @shared_task(bind=True, max_retries=3)
max_retries == 3

VARIABLES
    cannes,                  \* ids of the rows of the Canne table
    derniere_communication,  \* Canne.derniere_communication per device (None = NULL)
    contacts,                \* rows of the Contact table
    reg,                     \* per in-flight registration request: locals of post()
    response,                \* the HTTP response the last contact request got (none while it runs)
    nEdits,                  \* updates and deletions performed so far
    jobs,                    \* per command job: the task request and the locals of its run
    sms_logs,                \* rows of the SMSLog table, in insertion order
    inbox,                   \* per device: inbound messages buffered by the GSM module
    poll                     \* the inbound poller: cycles run, and what the last one did

vars == <<cannes, derniere_communication, contacts, reg, response, nEdits, jobs,
          sms_logs, inbox, poll>>

pollVars == <<sms_logs, inbox, poll>>

contactVars == <<contacts, reg, response, nEdits>>

----------------------------------------------------------------------------
(* Contact table *)

\* a Contact row: the columns the views read or write.  Rows are created by
\* the registration view only, with synchro_avec_canne=True; the serializer
\* keeps the column read-only, so no update changes it.
Contact(c, t, i) ==
    [canne |-> c, telephone |-> t, id_microcontroleur |-> i, synchro_avec_canne |-> TRUE]

\* Contact.objects.filter(canne=canne)
ContactsOf(c) == {k \in contacts : k.canne = c}

\* Contact.objects.filter(canne=canne, telephone=numero).exists()
ContactExists(c, t) == \E k \in contacts : k.canne = c /\ k.telephone = t

\* Contact.objects.filter(canne=canne).values_list('id_microcontroleur', flat=True)
IndicesOccupes(c) == {k.id_microcontroleur : k \in ContactsOf(c)}

\* next((i for i in range(1, 6) if i not in indices_occupes), None),
\* scanned from i upwards
RECURSIVE ScanFrom(_, _)
ScanFrom(i, indices_occupes) ==
    IF i >= RangeStop THEN None
    ELSE IF i \notin indices_occupes THEN i
    ELSE ScanFrom(i + 1, indices_occupes)

\* the scan with its upper bound included: range(1, 6) read as 1..6
IndexLibreStopIncluded(indices_occupes) ==
    LET free == (RangeStart..RangeStop) \ indices_occupes
    IN IF free = {} THEN None ELSE CHOOSE i \in free : \A k \in free : i <= k

\* the index after the highest occupied one instead of the first gap
IndexLibreAfterHighest(indices_occupes) ==
    LET top == IF indices_occupes = {} THEN RangeStart - 1
               ELSE CHOOSE i \in indices_occupes : \A k \in indices_occupes : k <= i
    IN IF top + 1 >= RangeStop THEN None ELSE top + 1

IndexLibre(indices_occupes) == ScanFrom(RangeStart, indices_occupes)

\* Phone numbers are opaque strings the code only compares for equality.
\* The clients of a device take its numbers in order: a number new to the
\* device is the smallest number it does not hold.
\* The numbers device c holds, or is being given by a request in flight:
PhonesInUse(c) ==
    {k.telephone : k \in ContactsOf(c)} \cup
    {reg[r].numero_contact : r \in {q \in Reqs : reg[q].pc = "create" /\ reg[q].canne = c}}

\* the smallest element of a non-empty set of numbers
Least(S) == CHOOSE p \in S : \A q \in S : p <= q

\* The numbers tried as the number of a new or renamed contact of device c:
\* the smallest number c does not hold and the smallest number c holds
\* (every held number is refused alike).
NewPhoneChoices(c) ==
    LET held == PhonesInUse(c)
        unused == Phones \ held
    IN (IF unused = {} THEN {} ELSE {Least(unused)})
         \cup (IF held = {} THEN {} ELSE {Least(held)})

\* The numbers tried to name an existing contact of device c: every number
\* c holds, and one it does not hold.
PhoneChoices(c) ==
    LET held == PhonesInUse(c)
        unused == Phones \ held
    IN held \cup (IF unused = {} THEN {} ELSE {Least(unused)})

IdleReg == [pc |-> "idle", canne |-> None, numero_contact |-> None,
            indices_occupes |-> {}, index_libre |-> None]

NoResponse == [view |-> "none", status |-> 0, detail |-> "none", index |-> None]

Resp(view, status, detail, index) ==
    [view |-> view, status |-> status, detail |-> detail, index |-> index]

----------------------------------------------------------------------------
(* Command jobs *)

\* the writes with the message body sent before the address command
WriteSeqBodyBeforeAddress == <<"AT", "AT+CMGF=1", "message", "AT+CMGS", "CtrlZ">>

\* the five writes of envoyer_sms_physique, in program order
WriteSeq == <<"AT", "AT+CMGF=1", "AT+CMGS", "message", "CtrlZ">>

\* Text as the sequence of its characters
Text_OK == <<"O", "K">>
Text_CMGS == <<"+", "C", "M", "G", "S", ":">>

\* what read_all() can return after the terminator: nothing (the module
\* stayed silent), a message reference, a bare OK, an error report, the
\* earlier OK replies followed by an error, and near misses of the tokens
Reponses ==
    { <<>>,
      <<"+", "C", "M", "G", "S", ":", " ", "1", "2">>,
      <<"O", "K">>,
      <<"E", "R", "R", "O", "R">>,
      <<"+", "C", "M", "S", " ", "E", "R", "R", "O", "R">>,
      <<">", " ", "O", " ", "K">>,
      <<"O", "K", " ", "E", "R", "R", "O", "R">>,
      <<"o", "k">>,
      <<"+", "C", "M", "G", "S", " ", "1", "2">> }

\* Python's  token in text
Contains(text, token) ==
    \E i \in 1..(Len(text) - Len(token) + 1) :
        SubSeq(text, i, i + Len(token) - 1) = token

\* the test with the message reference token forgotten
ConfirmsOkOnly(reponse) == Contains(reponse, Text_OK)

\* if "OK" in reponse or "+CMGS:" in reponse
Confirms(reponse) == Contains(reponse, Text_OK) \/ Contains(reponse, Text_CMGS)

\* what a serial call does: it returns, raises serial.SerialException (or its
\* subclass SerialTimeoutException), or raises any other exception
Faults == {"ok", "SerialException", "Exception"}

\* (applies counts the Task.apply() calls of the job that have not returned:
\* the calls exist in eager mode only, where the caller's thread runs the task)
NoJob == [pc |-> "none", canne_id |-> None, retries |-> 0,
          executions |-> 0, exchanges |-> 0, applies |-> 0,
          ser |-> "None", written |-> 0, tx |-> <<>>,
          success |-> "unset", log |-> "none", outcome |-> "none"]

\* the poller before its first cycle
NoPoll == [cycles |-> 0, result |-> "none", logged |-> "none", polled |-> {}]

----------------------------------------------------------------------------
Init ==
    /\ cannes = Cannes
    /\ derniere_communication = [c \in CanneIds |-> None]
    /\ contacts = {}
    /\ reg = [r \in Reqs |-> IdleReg]
    /\ response = NoResponse
    /\ nEdits = 0
    /\ jobs = [j \in Jobs |-> NoJob]
    /\ sms_logs = <<>>
    /\ inbox = [c \in Cannes |-> 0]
    /\ poll = NoPoll

----------------------------------------------------------------------------
(* The view with the capacity check made before the duplicate check.       *)
RegisterBeginFullFirst(r, canne_id, numero_contact) ==
    /\ reg[r].pc = "idle"
    /\ UNCHANGED <<cannes, derniere_communication, pollVars, contacts, nEdits, jobs>>
    /\ IF canne_id \notin cannes
       THEN /\ response' = Resp("register", 404, "Canne non trouvee.", None)
            /\ UNCHANGED reg
       ELSE LET indices_occupes == IndicesOccupes(canne_id)
                index_libre == IndexLibre(indices_occupes)
            IN IF index_libre = None
               THEN /\ response' = Resp("register", 400, "Memoire de la canne pleine (5 max).", None)
                    /\ UNCHANGED reg
               ELSE IF ContactExists(canne_id, numero_contact)
               THEN /\ response' = Resp("register", 400, "Ce contact existe deja pour cette canne.", None)
                    /\ UNCHANGED reg
               ELSE /\ reg' = [reg EXCEPT ![r] =
                                 [pc |-> "create", canne |-> canne_id,
                                  numero_contact |-> numero_contact,
                                  indices_occupes |-> indices_occupes,
                                  index_libre |-> index_libre]]
                    /\ response' = NoResponse

(* The view with the contact created before the capacity check: on a full  *)
(* table the row is stored with a NULL index (the column is nullable) and  *)
(* the 400 response, which raises nothing, lets the transaction commit.    *)
RegisterBeginCreateFirst(r, canne_id, numero_contact) ==
    /\ reg[r].pc = "idle"
    /\ UNCHANGED <<cannes, derniere_communication, pollVars, nEdits, jobs>>
    /\ IF canne_id \notin cannes
       THEN /\ response' = Resp("register", 404, "Canne non trouvee.", None)
            /\ UNCHANGED <<reg, contacts>>
       ELSE IF ContactExists(canne_id, numero_contact)
       THEN /\ response' = Resp("register", 400, "Ce contact existe deja pour cette canne.", None)
            /\ UNCHANGED <<reg, contacts>>
       ELSE LET indices_occupes == IndicesOccupes(canne_id)
                index_libre == IndexLibre(indices_occupes)
            IN IF index_libre = None
               THEN /\ response' = Resp("register", 400, "Memoire de la canne pleine (5 max).", None)
                    /\ contacts' = contacts \cup {Contact(canne_id, numero_contact, None)}
                    /\ UNCHANGED reg
               ELSE /\ reg' = [reg EXCEPT ![r] =
                                 [pc |-> "create", canne |-> canne_id,
                                  numero_contact |-> numero_contact,
                                  indices_occupes |-> indices_occupes,
                                  index_libre |-> index_libre]]
                    /\ response' = NoResponse
                    /\ UNCHANGED contacts

(* RegisterContactViaSMSAPIView.post, steps 1 to 3: the device lookup, the  *)
(* duplicate check and the read of the occupied indices.  The view runs in *)
(* transaction.atomic under the database's default READ COMMITTED level    *)
(* and takes no row lock, so other requests may commit between this read   *)
(* and the INSERT of step 4.                                               *)
RegisterBegin(r, canne_id, numero_contact) ==
    /\ reg[r].pc = "idle"
    /\ UNCHANGED <<cannes, derniere_communication, pollVars, contacts, nEdits, jobs>>
    /\ IF canne_id \notin cannes
       THEN /\ response' = Resp("register", 404, "Canne non trouvee.", None)
            /\ UNCHANGED reg
       ELSE IF ContactExists(canne_id, numero_contact)
       THEN /\ response' = Resp("register", 400, "Ce contact existe deja pour cette canne.", None)
            /\ UNCHANGED reg
       ELSE LET indices_occupes == IndicesOccupes(canne_id)
                index_libre == IndexLibre(indices_occupes)
            IN IF index_libre = None
               THEN /\ response' = Resp("register", 400, "Memoire de la canne pleine (5 max).", None)
                    /\ UNCHANGED reg
               ELSE /\ reg' = [reg EXCEPT ![r] =
                                 [pc |-> "create", canne |-> canne_id,
                                  numero_contact |-> numero_contact,
                                  indices_occupes |-> indices_occupes,
                                  index_libre |-> index_libre]]
                    /\ response' = NoResponse

\* the creation with the commented-out dispatch restored: on commit the CONF
\* command is submitted as a job for the device
RegisterCreateDispatches(r) ==
    /\ reg[r].pc = "create"
    /\ UNCHANGED <<cannes, derniere_communication, pollVars, nEdits>>
    /\ reg' = [reg EXCEPT ![r] = IdleReg]
    /\ IF ContactExists(reg[r].canne, reg[r].numero_contact)
       THEN /\ response' = Resp("register", 500, "IntegrityError", None)
            /\ UNCHANGED <<contacts, jobs>>
       ELSE /\ contacts' = contacts \cup
                  {Contact(reg[r].canne, reg[r].numero_contact, reg[r].index_libre)}
            /\ response' = Resp("register", 201, "Contact enregistre", reg[r].index_libre)
            /\ jobs' = [jobs EXCEPT ![1] =
                   IF @.pc = "none"
                   THEN [@ EXCEPT !.pc = "queued", !.canne_id = reg[r].canne]
                   ELSE @]

(* Step 4 and the commit: Contact.objects.create(...) and the 201 response. *)
(* unique_together (canne, telephone) is the only constraint the table     *)
(* holds; a row committed meanwhile with the same pair makes the INSERT    *)
(* fail with IntegrityError, which the view does not catch (HTTP 500).     *)
RegisterCreate(r) ==
    /\ reg[r].pc = "create"
    /\ UNCHANGED <<cannes, derniere_communication, pollVars, nEdits, jobs>>
    /\ reg' = [reg EXCEPT ![r] = IdleReg]
    /\ IF ContactExists(reg[r].canne, reg[r].numero_contact)
       THEN /\ response' = Resp("register", 500, "IntegrityError", None)
            /\ UNCHANGED contacts
       ELSE /\ contacts' = contacts \cup
                  {Contact(reg[r].canne, reg[r].numero_contact, reg[r].index_libre)}
            /\ response' = Resp("register", 201, "Contact enregistre", reg[r].index_libre)

(* UpdateContactAPIView.put: ContactSerializer(instance, data, partial=True). *)
(* data may carry a new telephone and a new canne (both writable fields);  *)
(* id_microcontroleur is read-only.  None stands for a field not sent.     *)
(* The serializer's validators: the canne primary key must exist, and      *)
(* (canne, telephone) must be unique among the other rows.                 *)
UpdateContact(canne_id, telephone, role, new_canne, new_telephone) ==
    /\ nEdits < MaxEdits
    /\ UNCHANGED <<cannes, derniere_communication, pollVars, reg, jobs>>
    /\ IF role \notin {"ADMIN", "SUPER_ADMIN"}
       THEN /\ response' = Resp("update", 403, "Autorisation refusee", None)
            /\ UNCHANGED <<contacts, nEdits>>
       ELSE IF ~ContactExists(canne_id, telephone)
       THEN /\ response' = Resp("update", 404, "Not found", None)
            /\ UNCHANGED <<contacts, nEdits>>
       ELSE LET contact_instance ==
                    CHOOSE k \in contacts : k.canne = canne_id /\ k.telephone = telephone
                c2 == IF new_canne = None THEN contact_instance.canne ELSE new_canne
                t2 == IF new_telephone = None THEN contact_instance.telephone
                      ELSE new_telephone
                others == contacts \ {contact_instance}
            IN IF \/ c2 \notin cannes
                  \/ \E k \in others : k.canne = c2 /\ k.telephone = t2
               THEN /\ response' = Resp("update", 400, "serializer.errors", None)
                    /\ UNCHANGED <<contacts, nEdits>>
               ELSE /\ contacts' = others \cup
                          {Contact(c2, t2, contact_instance.id_microcontroleur)}
                    /\ response' = Resp("update", 200, "success", None)
                    /\ nEdits' = nEdits + 1

(* DeleteContactAPIView.post: the contact id of the route is the row with  *)
(* this (canne, telephone) pair.                                           *)
DeleteContact(canne_id, telephone, role) ==
    /\ nEdits < MaxEdits
    /\ UNCHANGED <<cannes, derniere_communication, pollVars, reg, jobs>>
    /\ IF role # "SUPER_ADMIN"
       THEN /\ response' = Resp("delete", 403, "Autorisation refusee", None)
            /\ UNCHANGED <<contacts, nEdits>>
       ELSE IF ~ContactExists(canne_id, telephone)
       THEN /\ response' = Resp("delete", 404, "Not found", None)
            /\ UNCHANGED <<contacts, nEdits>>
       ELSE LET contact_instance ==
                    CHOOSE k \in contacts : k.canne = canne_id /\ k.telephone = telephone
            IN /\ contacts' = contacts \ {contact_instance}
               /\ response' = Resp("delete", 200, "success",
                                   contact_instance.id_microcontroleur)
               /\ nEdits' = nEdits + 1

\* no registration request is between its read and its INSERT
Quiescent == \A r \in Reqs : reg[r].pc = "idle"

\* Server threads are interchangeable: a new request is served by the idle
\* thread of the lowest number.
IdleThread(r) == reg[r].pc = "idle" /\ \A q \in Reqs : q < r => reg[q].pc # "idle"

RegisterBeginAny ==
    \E r \in Reqs, c \in CanneIds :
       IdleThread(r) /\ \E t \in NewPhoneChoices(c) : RegisterBegin(r, c, t)

RegisterCreateAny == \E r \in Reqs : RegisterCreate(r)

\* The request bodies tried for an update.  The view reads the body only
\* after the role check and the lookup passed; before that one body stands
\* for all.
UpdateBodies(c, t, role) ==
    IF role \notin {"ADMIN", "SUPER_ADMIN"} \/ ~ContactExists(c, t)
    THEN {[canne |-> None, telephone |-> None]}
    ELSE UNION {{[canne |-> c2, telephone |-> t2] :
                    t2 \in NewPhoneChoices(IF c2 = None THEN c ELSE c2) \cup {None, t}} :
                c2 \in CanneIds \cup {None}}

UpdateContactAny ==
    /\ nEdits < MaxEdits
    /\ \E c \in CanneIds, role \in Roles : \E t \in PhoneChoices(c) :
       \E data \in UpdateBodies(c, t, role) :
          UpdateContact(c, t, role, data.canne, data.telephone)

DeleteContactAny ==
    /\ nEdits < MaxEdits
    /\ \E c \in CanneIds, role \in Roles : \E t \in PhoneChoices(c) : DeleteContact(c, t, role)

(* Requests served one at a time (a single-threaded server). *)
NextContacts ==
    \/ Quiescent /\ RegisterBeginAny
    \/ RegisterCreateAny
    \/ Quiescent /\ UpdateContactAny
    \/ Quiescent /\ DeleteContactAny

SpecContacts == Init /\ [][NextContacts]_vars

(* Registrations served by concurrent server threads or processes. *)
NextRegisterRace ==
    \/ RegisterBeginAny
    \/ RegisterCreateAny

SpecRegisterRace == Init /\ [][NextRegisterRace]_vars

----------------------------------------------------------------------------
(* task_envoyer_sms and GSMHardwareService.envoyer_sms_physique            *)

\* Jobs are interchangeable: the next submission takes the lowest free number.
FreeJob(j) == jobs[j].pc = "none" /\ \A k \in Jobs : k < j => jobs[k].pc # "none"

(* task_envoyer_sms.delay(canne_id, contenu): the message is put on the    *)
(* broker's queue with request.retries = 0.                                *)
Submit(j, canne_id) ==
    /\ FreeJob(j)
    /\ jobs' = [jobs EXCEPT ![j] = [@ EXCEPT !.pc = "queued", !.canne_id = canne_id]]
    /\ UNCHANGED <<cannes, derniere_communication, pollVars, contactVars>>

\* the missing device handled by the generic handler: the task is retried
OnDoesNotExistRetried(job) == [job EXCEPT !.pc = "retry", !.retries = @ + 1]

\* except Canne.DoesNotExist: return {'status': 'failed', 'reason': 'not_found'}
OnDoesNotExist(job) == [job EXCEPT !.pc = "done", !.outcome = "not_found"]

\* the start of a run that resolves the device at the first delivery only:
\* a retry reuses the number read by the first attempt
TaskStartLookupOnce(j) ==
    /\ jobs[j].pc \in {"queued", "retry"}
    /\ LET job == [jobs[j] EXCEPT !.executions = @ + 1]
       IN jobs' = [jobs EXCEPT ![j] =
              IF job.pc = "queued" /\ job.canne_id \notin cannes
              THEN OnDoesNotExist(job)
              ELSE [job EXCEPT !.pc = "open", !.exchanges = @ + 1,
                               !.ser = "None", !.written = 0, !.tx = <<>>,
                               !.success = "unset", !.log = "none"]]
    /\ UNCHANGED <<cannes, derniere_communication, pollVars, contactVars>>

\* the start of a run that keeps what the previous attempt resolved and
\* opened: a retry skips the device lookup and the opening of the port and
\* writes on the handle of the failed attempt
TaskStartReusesHandle(j) ==
    /\ jobs[j].pc \in {"queued", "retry"}
    /\ LET job == [jobs[j] EXCEPT !.executions = @ + 1]
       IN jobs' = [jobs EXCEPT ![j] =
              IF job.pc = "retry"
              THEN [job EXCEPT !.pc = "write", !.exchanges = @ + 1, !.ser = "open"]
              ELSE IF job.canne_id \notin cannes
              THEN OnDoesNotExist(job)
              ELSE [job EXCEPT !.pc = "open", !.exchanges = @ + 1,
                               !.ser = "None", !.written = 0, !.tx = <<>>,
                               !.success = "unset", !.log = "none"]]
    /\ UNCHANGED <<cannes, derniere_communication, pollVars, contactVars>>

(* A worker takes the message (the first delivery, or a retry whose        *)
(* countdown has elapsed) and runs the task body up to the call of the     *)
(* hardware service: Canne.objects.get(id=canne_id), canne.numero_gsm.      *)
TaskStart(j) ==
    /\ jobs[j].pc \in {"queued", "retry"}
    /\ LET job == [jobs[j] EXCEPT !.executions = @ + 1]
       IN jobs' = [jobs EXCEPT ![j] =
              IF job.canne_id \notin cannes
              THEN OnDoesNotExist(job)
              ELSE [job EXCEPT !.pc = "open", !.exchanges = @ + 1,
                               !.ser = "None", !.written = 0, !.tx = <<>>,
                               !.success = "unset", !.log = "none"]]
    /\ UNCHANGED <<cannes, derniere_communication, pollVars, contactVars>>

\* the return to the task without the finally block: the handle is left as it is
ServiceReturnNoClose(job, value, logged) ==
    [job EXCEPT !.pc = "returned", !.success = value, !.log = logged,
                !.written = 0, !.tx = <<>>]

\* the finally block and the return to the task:  if ser and ser.is_open: ser.close()
\* (written counts the writes of the exchange in progress, tx is what they
\* put on the line)
ServiceReturn(job, value, logged) ==
    [job EXCEPT !.pc = "returned", !.success = value, !.log = logged,
                !.ser = IF @ = "open" THEN "closed" ELSE @,
                !.written = 0, !.tx = <<>>]

\* except serial.SerialException: logger.error("Impossible d'acceder au module GSM"),
\* print("[MODE TEST] Materiel absent"), return True
OnSerialException(job) == ServiceReturn(job, TRUE, "materiel_absent")

\* the service without its generic except clause: the unexpected error passes
\* the finally block and reaches the task, whose handler calls self.retry
OnExceptionPropagates(job) ==
    LET closed == [job EXCEPT !.ser = "None", !.written = 0, !.tx = <<>>,
                              !.log = "erreur_imprevue"]
    IN IF job.retries + 1 > max_retries
       THEN [closed EXCEPT !.pc = "done", !.outcome = "exhausted"]
       ELSE [closed EXCEPT !.pc = "retry", !.retries = @ + 1]

\* the unexpected error handled by starting the handshake again inside the
\* service, on a new handle, instead of returning
OnExceptionReopens(job) ==
    [job EXCEPT !.pc = "open", !.ser = "None", !.written = 0, !.tx = <<>>]

\* except Exception: logger.error("Erreur imprevue"), return False
OnException(job) == ServiceReturn(job, FALSE, "erreur_imprevue")

(* ser = serial.Serial(cls.PORT, cls.BAUD_RATE, timeout=5).  The port is    *)
(* opened without an exclusive lock, so whether the open succeeds does not *)
(* depend on the handles other exchanges hold.                             *)
SerialOpen(j, fault) ==
    /\ jobs[j].pc = "open"
    /\ fault \in {"ok", "SerialException"}
    /\ jobs' = [jobs EXCEPT ![j] =
           IF fault = "ok"
           THEN [@ EXCEPT !.ser = "open", !.pc = "write"]
           ELSE OnSerialException(@)]
    /\ UNCHANGED <<cannes, derniere_communication, pollVars, contactVars>>

(* The next ser.write(...) of the handshake: WriteSeq[written + 1].        *)
SerialWrite(j, fault) ==
    /\ jobs[j].pc = "write"
    /\ jobs' = [jobs EXCEPT ![j] =
           IF fault = "ok"
           THEN [@ EXCEPT !.written = @ + 1,
                          !.tx = Append(@, WriteSeq[jobs[j].written + 1]),
                          !.pc = IF jobs[j].written + 1 = Len(WriteSeq)
                                 THEN "read_all" ELSE "write"]
           ELSE IF fault = "SerialException"
           THEN OnSerialException(@)
           ELSE OnException(@)]
    /\ UNCHANGED <<cannes, derniere_communication, pollVars, contactVars>>

\* the verdict on the response read after the terminator
Verdict(job, reponse) ==
    IF Confirms(reponse)
    THEN ServiceReturn(job, TRUE, "sms_envoye")
    ELSE ServiceReturn(job, FALSE, "echec_envoi")

(* reponse = ser.read_all().decode(errors='ignore') and the verdict.       *)
SerialReadAll(j, fault, reponse) ==
    /\ jobs[j].pc = "read_all"
    /\ jobs' = [jobs EXCEPT ![j] =
           IF fault = "ok"
           THEN Verdict(@, reponse)
           ELSE IF fault = "SerialException"
           THEN OnSerialException(@)
           ELSE OnException(@)]
    /\ UNCHANGED <<cannes, derniere_communication, pollVars, contactVars>>

\* self.retry with max_retries=3: retries = request.retries + 1; the exception
\* is re-raised (the task fails) when retries > max_retries
RetriesExceeded(retries) == retries > max_retries

\* if success: return {'status': 'success'}
OnSuccess(job) == [job EXCEPT !.pc = "done", !.outcome = "success", !.ser = "None"]

\* the failure handler with max_retries counted as runs: the task gives up
\* one run earlier
OnFailureRunsCounted(job) ==
    LET retries == job.retries + 1
        ended == [job EXCEPT !.ser = "None", !.success = "unset", !.log = "none"]
    IN IF retries >= max_retries
       THEN [ended EXCEPT !.pc = "done", !.outcome = "exhausted"]
       ELSE [ended EXCEPT !.pc = "retry", !.retries = retries]

\* the failure handler that records the exhausted outcome and still re-sends
\* the message: the job goes on being run after its terminal outcome
OnFailureRetriesAfterExhausted(job) ==
    LET retries == job.retries + 1
        ended == [job EXCEPT !.ser = "None", !.success = "unset", !.log = "none"]
    IN IF RetriesExceeded(retries)
       THEN [ended EXCEPT !.pc = "retry", !.outcome = "exhausted"]
       ELSE [ended EXCEPT !.pc = "retry", !.retries = retries]

\* raise Exception("Le service GSM a echoue.") caught by except Exception:
\* raise self.retry(exc=e, countdown=60)
OnFailure(job) ==
    LET retries == job.retries + 1
        ended == [job EXCEPT !.ser = "None", !.success = "unset", !.log = "none"]
    IN IF RetriesExceeded(retries)
       THEN [ended EXCEPT !.pc = "done", !.outcome = "exhausted"]
       ELSE [ended EXCEPT !.pc = "retry", !.retries = retries]

(* The task body after the service returned.                               *)
TaskResult(j) ==
    /\ jobs[j].pc = "returned"
    /\ jobs' = [jobs EXCEPT ![j] =
           IF @.success = TRUE THEN OnSuccess(@) ELSE OnFailure(@)]
    /\ UNCHANGED <<cannes, derniere_communication, pollVars, contactVars>>

NextDispatch ==
    \/ \E j \in Jobs, c \in CanneIds : Submit(j, c)
    \/ \E j \in Jobs : TaskStart(j)
    \/ \E j \in Jobs, fault \in Faults : SerialOpen(j, fault)
    \/ \E j \in Jobs, fault \in Faults : SerialWrite(j, fault)
    \/ \E j \in Jobs, fault \in Faults, reponse \in Reponses : SerialReadAll(j, fault, reponse)
    \/ \E j \in Jobs : TaskResult(j)

SpecDispatch == Init /\ [][NextDispatch]_vars

(* One job run alone: a single submission served by one worker.            *)
NextExchange ==
    \/ \E c \in CanneIds : Submit(1, c)
    \/ TaskStart(1)
    \/ \E fault \in Faults : SerialOpen(1, fault)
    \/ \E fault \in Faults : SerialWrite(1, fault)
    \/ \E fault \in Faults, reponse \in Reponses : SerialReadAll(1, fault, reponse)
    \/ TaskResult(1)

SpecExchange == Init /\ [][NextExchange]_vars

----------------------------------------------------------------------------
(* The job's surroundings: the device table changes and the database fails *)

(* DeleteCaneAPIView.post(numero_gsm, role): only SUPER_ADMIN may delete;  *)
(* get_object_or_404 answers 404 for an unknown device; canne.delete()     *)
(* removes the row and, by on_delete=CASCADE, the device's contacts and    *)
(* SMS log rows.  Queued and running jobs are not looked at.               *)
DeleteCane(d, role) ==
    /\ UNCHANGED <<derniere_communication, reg, nEdits, jobs, inbox, poll>>
    /\ IF role # "SUPER_ADMIN"
       THEN /\ response' = Resp("delete_cane", 403, "Action reservee au SUPER_ADMIN", None)
            /\ UNCHANGED <<cannes, contacts, sms_logs>>
       ELSE IF d \notin cannes
       THEN /\ response' = Resp("delete_cane", 404, "Not found", None)
            /\ UNCHANGED <<cannes, contacts, sms_logs>>
       ELSE /\ cannes' = cannes \ {d}
            /\ contacts' = contacts \ ContactsOf(d)
            /\ sms_logs' = SelectSeq(sms_logs, LAMBDA row : row.canne # d)
            /\ response' = Resp("delete_cane", 200, "La canne a ete supprimee.", None)

(* A run whose Canne.objects.get(id=canne_id) raises an error other than   *)
(* Canne.DoesNotExist (the database is unreachable): except Exception      *)
(* catches it and the task is retried; the service is not called.          *)
LookupFails(j) ==
    /\ jobs[j].pc \in {"queued", "retry"}
    /\ jobs' = [jobs EXCEPT ![j] = OnFailure([@ EXCEPT !.executions = @ + 1])]
    /\ UNCHANGED <<cannes, derniere_communication, pollVars, contactVars>>

(* One job, while devices are deleted and lookups may fail.                *)
NextLifecycle ==
    \/ NextExchange
    \/ \E d \in CanneIds, role \in Roles : DeleteCane(d, role)
    \/ LookupFails(1)

SpecLifecycle == Init /\ [][NextLifecycle]_vars

(* The steps of job j that the worker and the serial driver take on their  *)
(* own: a worker is always there to take a delivered message (the retry's  *)
(* countdown elapses), the task body runs on, and every serial call        *)
(* returns or raises (the port is opened with timeout=5 and read_all does  *)
(* not block).                                                             *)
JobStep(j) ==
    \/ TaskStart(j)
    \/ LookupFails(j)
    \/ \E fault \in Faults : SerialOpen(j, fault)
    \/ \E fault \in Faults : SerialWrite(j, fault)
    \/ \E fault \in Faults, reponse \in Reponses : SerialReadAll(j, fault, reponse)
    \/ TaskResult(j)

SpecLifecycleFair == SpecLifecycle /\ WF_vars(JobStep(1))

(* One job, while devices are deleted; the database answers every lookup.  *)
NextDeletion ==
    \/ NextExchange
    \/ \E d \in CanneIds, role \in Roles : DeleteCane(d, role)

SpecDeletion == Init /\ [][NextDeletion]_vars

----------------------------------------------------------------------------
(* Eager execution: config/celery.py                                       *)

\* DEBUG = os.environ.get('DEBUG', 'True') == 'True'
DEBUG == TRUE

\* if settings.DEBUG: app.conf.update(task_always_eager=True,
\*                                    task_eager_propagates=True)
task_always_eager == DEBUG

(* With task_always_eager, delay() does not send a message: it calls       *)
(* Task.apply(), which runs the task body in the caller's thread.  When    *)
(* the body raised Retry, apply() does not return: it calls apply() of the *)
(* retry signature at once (the countdown is not waited for), so the run   *)
(* of the retry is nested in the call that ran the failed attempt.         *)
EagerApply(j) ==
    /\ task_always_eager
    /\ jobs[j].pc \in {"queued", "retry"}
    /\ LET job == [jobs[j] EXCEPT !.executions = @ + 1, !.applies = @ + 1]
       IN jobs' = [jobs EXCEPT ![j] =
              IF job.canne_id \notin cannes
              THEN [OnDoesNotExist(job) EXCEPT !.applies = 0]
              ELSE [job EXCEPT !.pc = "open", !.exchanges = @ + 1,
                               !.ser = "None", !.written = 0, !.tx = <<>>,
                               !.success = "unset", !.log = "none"]]
    /\ UNCHANGED <<cannes, derniere_communication, pollVars, contactVars>>

(* The task body after the service returned, in eager mode.  A result (or, *)
(* with task_eager_propagates, the exception of the exhausted job) unwinds *)
(* every nested apply() back to the caller of delay(); Retry leaves them   *)
(* on the stack.                                                           *)
EagerTaskResult(j) ==
    /\ task_always_eager
    /\ jobs[j].pc = "returned"
    /\ LET ended == IF jobs[j].success = TRUE THEN OnSuccess(jobs[j]) ELSE OnFailure(jobs[j])
       IN jobs' = [jobs EXCEPT ![j] =
              IF ended.pc = "done" THEN [ended EXCEPT !.applies = 0] ELSE ended]
    /\ UNCHANGED <<cannes, derniere_communication, pollVars, contactVars>>

(* One job submitted in eager mode.                                        *)
NextEager ==
    \/ \E c \in CanneIds : Submit(1, c)
    \/ EagerApply(1)
    \/ \E fault \in Faults : SerialOpen(1, fault)
    \/ \E fault \in Faults : SerialWrite(1, fault)
    \/ \E fault \in Faults, reponse \in Reponses : SerialReadAll(1, fault, reponse)
    \/ EagerTaskResult(1)

SpecEager == Init /\ [][NextEager]_vars

----------------------------------------------------------------------------
(* task_lire_sms_recus, run by Celery Beat every minute                    *)

\* the methods class GSMHardwareService defines
GSMHardwareServiceMethods == {"envoyer_sms_physique"}

(* A cane sends a message: the GSM module of the server buffers it.        *)
ModuleReceives(d) ==
    /\ inbox[d] < MaxInbox
    /\ inbox' = [inbox EXCEPT ![d] = @ + 1]
    /\ UNCHANGED <<cannes, derniere_communication, contactVars, jobs, sms_logs, poll>>

\* the cycle without its except clause: the error of the call leaves the task
TaskLireSmsRecusRaises ==
    /\ poll.cycles < MaxCycles
    /\ "lire_sms_recus" \notin GSMHardwareServiceMethods
    /\ poll' = [cycles |-> poll.cycles + 1, result |-> "raised",
                logged |-> "none", polled |-> {}]
    /\ UNCHANGED <<cannes, derniere_communication, contactVars, jobs, sms_logs, inbox>>

(* One cycle.  The task body is the single call                            *)
(* GSMHardwareService.lire_sms_recus(); the class has no such attribute,   *)
(* so the call raises AttributeError, which except Exception catches: the  *)
(* error is logged and the task returns "Erreur: ...".  Nothing is read    *)
(* from the module and no table is written.                                *)
TaskLireSmsRecus ==
    /\ poll.cycles < MaxCycles
    /\ "lire_sms_recus" \notin GSMHardwareServiceMethods
    /\ poll' = [cycles |-> poll.cycles + 1, result |-> "Erreur",
                logged |-> "Erreur lors de la lecture", polled |-> {}]
    /\ UNCHANGED <<cannes, derniere_communication, contactVars, jobs, sms_logs, inbox>>

NextPoller ==
    \/ \E d \in Cannes : ModuleReceives(d)
    \/ TaskLireSmsRecus

SpecPoller == Init /\ [][NextPoller]_vars

(* The poller running beside registrations and a command job.             *)
NextPollerBusy ==
    \/ Quiescent /\ RegisterBeginAny
    \/ RegisterCreateAny
    \/ NextExchange
    \/ TaskLireSmsRecus

SpecPollerBusy == Init /\ [][NextPollerBusy]_vars

Next == NextContacts \/ NextRegisterRace \/ NextDispatch \/ NextPoller

Spec == Init /\ [][Next]_vars

----------------------------------------------------------------------------
(* Properties *)

\* the capacity of a device's contact memory: the indices range(1, 6) yields
Slots == RangeStart..(RangeStop - 1)

InFlight(d) == {j \in Jobs : jobs[j].canne_id = d /\ jobs[j].ser = "open"}

\* C2: at every instant at most one AT exchange is in flight per device.
C2_OneExchangePerDevice == \A d \in Cannes : Cardinality(InFlight(d)) <= 1

\* C3: every device has at most 5 contacts, every slot index is in 1..5, and
\* no two contacts of a device share a slot index or a phone number.
C3_SlotTableInvariant ==
    \A c \in Cannes :
        /\ Cardinality(ContactsOf(c)) <= Cardinality(Slots)
        /\ \A k \in ContactsOf(c) : k.id_microcontroleur \in Slots
        /\ \A k1, k2 \in ContactsOf(c) :
              k1 # k2 => /\ k1.id_microcontroleur # k2.id_microcontroleur
                         /\ k1.telephone # k2.telephone

\* C4: concurrent registrations for a device never obtain the same slot
\* index and never bring the device above 5 occupied slots.
C4_ConcurrentAllocateAtomic ==
    \A c \in Cannes :
        /\ Cardinality(ContactsOf(c)) = Cardinality(IndicesOccupes(c))
        /\ Cardinality(ContactsOf(c)) <= Cardinality(Slots)

\* a registration of a number the device does not hold starts on device c
\* (such a step answers the request or leaves it pending in reg)
NewRegistrationBegins(c) ==
    /\ response'.view = "register" \/ reg' # reg
    /\ \E r \in Reqs, t \in Phones : ~ContactExists(c, t) /\ RegisterBegin(r, c, t)

\* C5: a registration never assigns an index outside 1..5, and a
\* registration of a new number on a device whose 5 slots are occupied is
\* answered 400 "Memoire de la canne pleine (5 max)." and creates no contact.
C5_AllocateWithinCapacity ==
    [][ /\ \A k \in contacts' : k.id_microcontroleur \in Slots
        /\ \A r \in Reqs : reg'[r].pc = "create" => reg'[r].index_libre \in Slots
        /\ response'.status = 201 => response'.index \in Slots
        /\ \A c \in Cannes :
              (Slots \subseteq IndicesOccupes(c) /\ NewRegistrationBegins(c)) =>
                  /\ response'.status = 400
                  /\ response'.detail = "Memoire de la canne pleine (5 max)."
                  /\ contacts' = contacts
                  /\ reg' = reg ]_vars

C5_Witness ==
    /\ response.detail = "Memoire de la canne pleine (5 max)."
    /\ \E c \in Cannes : Slots \subseteq IndicesOccupes(c)

\* the smallest index of 1..5 that no contact of device c holds (None if none)
LowestFree(c) ==
    LET free == Slots \ IndicesOccupes(c)
    IN IF free = {} THEN None ELSE CHOOSE i \in free : \A k \in free : i <= k

\* C6: a registration that allocates reads, as its index, the smallest index
\* of 1..5 that no contact of the device holds at that moment, and a
\* successful registration creates the contact with that index and reports it.
C6_LowestFreeIndex ==
    [][ /\ \A r \in Reqs :
              (reg[r].pc = "idle" /\ reg'[r].pc = "create") =>
                  /\ LowestFree(reg'[r].canne) # None
                  /\ reg'[r].index_libre = LowestFree(reg'[r].canne)
        /\ \A r \in Reqs :
              (reg[r].pc = "create" /\ reg'[r].pc = "idle" /\ response'.status = 201) =>
                  /\ contacts' = contacts \cup
                        {Contact(reg[r].canne, reg[r].numero_contact, reg[r].index_libre)}
                  /\ response'.index = reg[r].index_libre ]_vars

\* the scenario: five contacts held slots 1..5, the contact in slot 3 was
\* released, and the next registration received index 3
C6_Witness ==
    /\ nEdits = 1
    /\ response.view = "register" /\ response.status = 201 /\ response.index = 3
    /\ \E c \in Cannes :
          /\ Cardinality(ContactsOf(c)) = Cardinality(Slots)
          /\ IndicesOccupes(c) = Slots

\* C7: a job for a device that does not exist ends at once as NOT_FOUND: one
\* run of the task, no retry, no call of the hardware service, no link
\* opened and nothing written.
C7_NotFoundIsTerminal ==
    \A j \in Jobs :
        (jobs[j].pc \notin {"none", "queued"} /\ jobs[j].canne_id \notin cannes) =>
            /\ jobs[j].pc = "done"
            /\ jobs[j].outcome = "not_found"
            /\ jobs[j].retries = 0
            /\ jobs[j].executions = 1
            /\ jobs[j].exchanges = 0
            /\ jobs[j].ser = "None"
            /\ jobs[j].written = 0

C7_Witness == \E j \in Jobs : jobs[j].outcome = "not_found"

\* C8: a job whose exchange was confirmed by the module ends as SUCCESS, its
\* attempt count is the number of attempts made, and the device's
\* derniere_communication has been written.
C8_SuccessUpdatesLastContact ==
    \A j \in Jobs :
        (jobs[j].pc = "done" /\ jobs[j].log = "sms_envoye") =>
            /\ jobs[j].outcome = "success"
            /\ jobs[j].executions = jobs[j].retries + 1
            /\ derniere_communication[jobs[j].canne_id] # None

\* C9: once the link was opened, an exchange that did not read a confirming
\* response returns False (REJECTED): a fault after the open is never
\* reported as a success.
C9_FaultAfterOpenIsRejected ==
    \A j \in Jobs :
        (jobs[j].pc = "returned" /\ jobs[j].ser = "closed"
            /\ jobs[j].log # "sms_envoye") => jobs[j].success = FALSE

\* the service returned without having opened the link
Simulated(j) == jobs[j].pc = "returned" /\ jobs[j].ser = "None"

\* the service returned after the module confirmed the message
ReallyConfirmed(j) == jobs[j].pc = "returned" /\ jobs[j].log = "sms_envoye"

\* C10: the value the task receives for a simulated success (the link could
\* not be opened, nothing was written) differs from the value it receives
\* for a real confirmation.
C10_SimulatedDistinguishable ==
    \A j, k \in Jobs :
        (Simulated(j) /\ ReallyConfirmed(k)) => jobs[j].success # jobs[k].success

\* the handles open on the configured port (GSMHardwareService.PORT)
OpenHandles == {j \in Jobs : jobs[j].ser = "open"}

\* C11: at most one handle is open on the serial port at any time, also
\* across devices, and the bytes of two exchanges never share the line: while
\* one exchange has written and not returned, no other has.
C11_OneHandlePerPort ==
    /\ Cardinality(OpenHandles) <= 1
    /\ \A j, k \in Jobs : (j # k /\ jobs[j].tx # <<>>) => jobs[k].tx = <<>>

\* C12: outside the body of envoyer_sms_physique no handle is open: the
\* service has closed the link it opened when it returns, on every exit path
\* (confirmed, rejected, serial fault, unexpected exception), and no link stays
\* open between two attempts.
C12_LinkClosedOnReturn ==
    \A j \in Jobs :
        /\ jobs[j].pc \in {"write", "read_all"} <=> jobs[j].ser = "open"
        /\ (jobs[j].pc = "returned" /\ jobs[j].log # "materiel_absent") =>
               jobs[j].ser = "closed"

\* an exchange that opened the link and ended in an unexpected exception
C12_Witness ==
    \E j \in Jobs :
        jobs[j].pc = "returned" /\ jobs[j].log = "erreur_imprevue" /\ jobs[j].ser = "closed"

\* the order of the protocol steps: probe, text mode, address, body, terminator
ProtocolOrder == <<"AT", "AT+CMGF=1", "AT+CMGS", "message", "CtrlZ">>

\* C13: within one exchange the steps are written in the protocol order, one
\* at a time and each once, while the link is held; the response is read and
\* the verdict decided only after all five were written.
C13_StepsInOrder ==
    [][ \A j \in Jobs :
          /\ jobs'[j].tx # jobs[j].tx =>
                \/ jobs'[j].tx = <<>>
                \/ /\ Len(jobs[j].tx) < Len(ProtocolOrder)
                   /\ jobs'[j].tx = Append(jobs[j].tx, ProtocolOrder[Len(jobs[j].tx) + 1])
                   /\ jobs[j].ser = "open" /\ jobs'[j].ser = "open"
          /\ jobs'[j].tx # <<>> => jobs'[j].ser = "open"
          /\ jobs'[j].pc = "read_all" => jobs'[j].tx = ProtocolOrder
          /\ (jobs[j].pc # "returned" /\ jobs'[j].pc = "returned"
                /\ jobs'[j].log \in {"sms_envoye", "echec_envoi"}) =>
                   jobs[j].tx = ProtocolOrder /\ jobs[j].ser = "open" ]_vars

\* an exchange that wrote the five steps and is about to read the response
C13_Witness ==
    \E j \in Jobs : jobs[j].pc = "read_all" /\ jobs[j].tx = ProtocolOrder

\* the success tokens of the protocol
SuccessTokens == {<<"O", "K">>, <<"+", "C", "M", "G", "S", ":">>}

\* text holds one of the success tokens at some position
HasSuccessToken(text) ==
    \E token \in SuccessTokens : \E i \in 1..Len(text) :
        /\ i + Len(token) - 1 <= Len(text)
        /\ \A k \in 1..Len(token) : text[i + k - 1] = token[k]

\* C14: the exchange whose response was read after the terminator returns
\* True (CONFIRMED) if and only if the response holds OK or +CMGS: somewhere;
\* every other response, the empty one included, returns False (REJECTED).
C14_ConfirmedIffToken ==
    [][ \A j \in Jobs :
          (jobs[j].pc = "read_all" /\ jobs'[j].pc # "read_all") =>
              \A reponse \in Reponses :
                  SerialReadAll(j, "ok", reponse) =>
                      /\ jobs'[j].pc = "returned"
                      /\ jobs'[j].success = HasSuccessToken(reponse)
                      /\ jobs'[j].log = IF HasSuccessToken(reponse)
                                        THEN "sms_envoye" ELSE "echec_envoi" ]_vars

\* an exchange confirmed by its response, after an earlier attempt of the job
\* was rejected
C14_Witness ==
    \E j \in Jobs :
        /\ jobs[j].pc = "returned" /\ jobs[j].log = "sms_envoye" /\ jobs[j].success = TRUE
        /\ jobs[j].retries > 0

\* the rows of the SMSLog table about device d with one of the given statuses
LogEntries(d, statuts) ==
    {i \in 1..Len(sms_logs) : sms_logs[i].canne = d /\ sms_logs[i].statut \in statuts}

\* C15: a job that ended as success or exhausted has an SMSLog entry
\* recording it (ENVOYE or ECHEC), and a job in progress has an entry with
\* status EN_ATTENTE.
C15_OutcomeLogged ==
    \A j \in Jobs :
        /\ jobs[j].outcome = "success" => LogEntries(jobs[j].canne_id, {"ENVOYE"}) # {}
        /\ jobs[j].outcome = "exhausted" => LogEntries(jobs[j].canne_id, {"ECHEC"}) # {}
        /\ (jobs[j].pc \notin {"none", "done"} /\ jobs[j].canne_id \in cannes) =>
               LogEntries(jobs[j].canne_id, {"EN_ATTENTE"}) # {}

\* the number of inbound entries of the log about device d
InboundEntries(logs, d) ==
    Cardinality({i \in 1..Len(logs) : logs[i].canne = d /\ logs[i].direction = "INBOUND"})

\* C19: a polling cycle appends one inbound log entry for every message the
\* module had buffered for a known device.
C19_InboundLogged ==
    [][ poll'.cycles = poll.cycles + 1 =>
          \A d \in cannes :
              InboundEntries(sms_logs', d) = InboundEntries(sms_logs, d) + inbox[d] ]_vars

\* C20: a cycle in which polling a device failed has logged the failure and
\* has polled the other devices all the same.
C20_FailureIsolated ==
    [][ (poll'.cycles = poll.cycles + 1 /\ poll'.result = "Erreur") =>
          /\ poll'.logged # "none"
          /\ \E d \in cannes : (cannes \ {d}) \subseteq poll'.polled ]_vars

\* C16: deleting a contact that is not in the table (its slot is already
\* free) reports no error and leaves the table unchanged.
C16_ReleaseIdempotent ==
    [][ response'.view = "delete" =>
          \A c \in Cannes, t \in Phones :
              (~ContactExists(c, t) /\ DeleteContact(c, t, "SUPER_ADMIN")) =>
                  /\ response'.status = 200
                  /\ contacts' = contacts ]_vars

\* device c holds a contact with number t
Holds(c, t) == \E k \in ContactsOf(c) : k.telephone = t

\* C17: a registration of a number the device already holds is answered 400
\* "Ce contact existe deja", also when the device's table is full, and no
\* index is searched or consumed.
C17_DuplicateBeforeFull ==
    [][ response'.view = "register" =>
          \A r \in Reqs, c \in Cannes, t \in Phones :
              (Holds(c, t) /\ RegisterBegin(r, c, t)) =>
                  /\ response'.status = 400
                  /\ response'.detail = "Ce contact existe deja pour cette canne."
                  /\ contacts' = contacts
                  /\ reg' = reg ]_vars

\* a duplicate was refused while every device that has contacts is full
C17_Witness ==
    /\ response.detail = "Ce contact existe deja pour cette canne."
    /\ \A c \in Cannes : ContactsOf(c) # {} => Slots \subseteq IndicesOccupes(c)

\* C18: a registration refused for a logical reason (device not found,
\* duplicate contact, table full) is answered at once with 404 or 400: no
\* request stays pending, no job is queued, and no contact of any device
\* changes.
C18_FailedRegistrationNoEffect ==
    [][ response'.view = "register" =>
          \A r \in Reqs, c \in CanneIds, t \in Phones :
              (RegisterBegin(r, c, t)
                 /\ (c \notin cannes \/ Holds(c, t) \/ Slots \subseteq IndicesOccupes(c))) =>
                  /\ response'.status = IF c \in cannes THEN 400 ELSE 404
                  /\ contacts' = contacts
                  /\ reg' = reg
                  /\ jobs' = jobs ]_vars

\* a registration for an unknown device was refused while contacts exist
C18_Witness ==
    /\ response.view = "register" /\ response.status = 404
    /\ contacts # {}

\* C21: every attempt of a job is a fresh run of the protocol.  A step that
\* starts an exchange has just found the device in the table, leaves the job
\* at the opening of the port with no handle, nothing written, no response
\* and no verdict, and a job waiting for its retry keeps no handle and no
\* protocol position from the failed attempt.
C21_FreshProtocolRun ==
    [][\A j \in Jobs :
          /\ jobs[j].pc = "retry" =>
                 /\ jobs[j].ser = "None"
                 /\ jobs[j].written = 0
                 /\ jobs[j].tx = <<>>
                 /\ jobs[j].success = "unset"
          /\ jobs'[j].exchanges = jobs[j].exchanges + 1 =>
                 /\ jobs[j].canne_id \in cannes
                 /\ jobs'[j].executions = jobs[j].executions + 1
                 /\ jobs'[j].pc = "open"
                 /\ jobs'[j].ser = "None"
                 /\ jobs'[j].written = 0
                 /\ jobs'[j].tx = <<>>
                 /\ jobs'[j].success = "unset"
                 /\ jobs'[j].log = "none"]_vars

\* a third attempt is about to open the port, after a device was deleted
C21_Witness ==
    /\ jobs[1].pc = "open"
    /\ jobs[1].retries = 2
    /\ jobs[1].exchanges = 3
    /\ cannes # Cannes

\* C22: a retry is a new unit of work in every execution mode.  While a job
\* waits for its retry, the execution that failed has ended: no call that
\* ran the failed attempt is still on a thread's stack waiting for the retry.
C22_RetryIsNewUnitOfWork ==
    \A j \in Jobs : jobs[j].pc = "retry" => jobs[j].applies = 0

\* the job is inside envoyer_sms_physique
InExchange(j) == jobs[j].pc \in {"open", "write", "read_all"}

\* C23: deleting a device cancels its jobs between attempts and not inside
\* one.  A run that starts while the job's device is not in the table makes
\* no exchange and ends the job with the outcome not_found, its retry count
\* unchanged; a deletion changes no job, and a job inside an exchange goes
\* on through the protocol to the service's return with a verdict, whether
\* or not its device still exists.
C23_DeletionCancelsBetweenAttempts ==
    [][\A j \in Jobs :
          /\ (/\ jobs[j].pc \in {"queued", "retry"}
              /\ jobs[j].canne_id \notin cannes
              /\ jobs'[j] # jobs[j]) =>
                 /\ jobs'[j].pc = "done"
                 /\ jobs'[j].outcome = "not_found"
                 /\ jobs'[j].exchanges = jobs[j].exchanges
                 /\ jobs'[j].retries = jobs[j].retries
                 /\ jobs'[j].ser = "None"
          /\ cannes' # cannes => jobs' = jobs
          /\ (InExchange(j) /\ jobs'[j] # jobs[j]) =>
                 \/ InExchange(j)'
                 \/ jobs'[j].pc = "returned" /\ jobs'[j].success \in BOOLEAN]_vars

\* a job retried once found its device gone at the second run
C23_Witness ==
    /\ jobs[1].pc = "done"
    /\ jobs[1].outcome = "not_found"
    /\ jobs[1].retries = 1
    /\ jobs[1].exchanges = 1
    /\ jobs[1].executions = 2

\* C24: a contact's slot index is stable from allocation until release.  An
\* update leaves the contact it rewrites with the index it had, and a contact
\* that becomes a contact of a device in a step (by registration or by
\* update) never carries an index held by a contact that was and stays a
\* contact of that device.
C24_SlotIndexStable ==
    [][/\ (response'.view = "update" /\ response'.status = 200) =>
              {k.id_microcontroleur : k \in contacts' \ contacts}
                  \subseteq {k.id_microcontroleur : k \in contacts \ contacts'}
       /\ \A k \in contacts' \ contacts :
              \A k2 \in contacts \cap contacts' :
                  k2.canne = k.canne => k2.id_microcontroleur # k.id_microcontroleur]_vars

\* C25: the terminal outcomes success, not_found and exhausted are
\* absorbing.  A job that has an outcome is at rest, and no step changes
\* anything of it: no further attempt is made, and its outcome, its retry
\* count and its counts of runs and exchanges stay as they are.
C25_TerminalAbsorbing ==
    [][\A j \in Jobs :
          jobs[j].outcome # "none" =>
              /\ jobs[j].pc = "done"
              /\ jobs[j].outcome \in {"success", "not_found", "exhausted"}
              /\ jobs'[j] = jobs[j]]_vars

\* one job is exhausted while the other is in the middle of an exchange
C25_Witness ==
    /\ jobs[1].outcome = "exhausted"
    /\ jobs[2].pc = "write"
    /\ jobs[2].written = 2

\* C26: every submitted job eventually reaches a terminal outcome, whatever
\* the link, the device table and the database do, provided the worker and
\* the serial driver keep taking their steps.
C26_EveryJobTerminates ==
    \A j \in Jobs :
        (jobs[j].pc # "none") ~>
            (jobs[j].pc = "done" /\ jobs[j].outcome \in {"success", "not_found", "exhausted"})

\* a job exhausted by two failed lookups and two rejected exchanges
C26_Witness ==
    /\ jobs[1].outcome = "exhausted"
    /\ jobs[1].executions = 4
    /\ jobs[1].exchanges = 2

\* the texts task_lire_sms_recus returns: "Traitement termine. ..." or "Erreur: ..."
ResultTexts == {"Traitement termine", "Erreur"}

\* C27: a polling cycle leaves the device table, the contacts and their
\* slots, the registrations in progress and every command job as they were,
\* and ends by returning a result text, never by raising.
C27_PollerFrame ==
    [][poll'.cycles = poll.cycles + 1 =>
          /\ cannes' = cannes
          /\ contacts' = contacts
          /\ reg' = reg
          /\ jobs' = jobs
          /\ poll'.result \in ResultTexts]_vars

\* a cycle has run while a device holds two contacts and a job is writing
C27_Witness ==
    /\ poll.cycles = 2
    /\ Cardinality(ContactsOf(1)) = 2
    /\ jobs[1].pc = "write"
    /\ jobs[1].retries = 1

\* self.retry was called in the step: the retry count went up or the job gave up
RetryTriggered(j) ==
    \/ jobs'[j].retries = jobs[j].retries + 1
    \/ jobs[j].outcome = "none" /\ jobs'[j].outcome = "exhausted"

\* C28: envoyer_sms_physique is total.  A job inside the service leaves it
\* only by the service's return, with the value True or False, whatever the
\* serial calls do; and self.retry is called only after a return of False or
\* after a device lookup that raised an error other than not-found (the run
\* then made no exchange).
C28_ServiceIsTotal ==
    [][\A j \in Jobs :
          /\ (InExchange(j) /\ jobs'[j] # jobs[j]) =>
                 \/ InExchange(j)'
                 \/ /\ jobs'[j].pc = "returned"
                    /\ jobs'[j].success \in BOOLEAN
                    /\ jobs'[j].ser # "open"
                    /\ jobs'[j].retries = jobs[j].retries
          /\ RetryTriggered(j) =>
                 \/ jobs[j].pc = "returned" /\ jobs[j].success = FALSE
                 \/ /\ jobs[j].pc \in {"queued", "retry"}
                    /\ jobs'[j].exchanges = jobs[j].exchanges
                    /\ jobs'[j].executions = jobs[j].executions + 1]_vars

\* after a retry caused by a failed lookup, the service has returned False
\* on an unexpected error
C28_Witness ==
    /\ jobs[1].pc = "returned"
    /\ jobs[1].success = FALSE
    /\ jobs[1].log = "erreur_imprevue"
    /\ jobs[1].retries = 1
    /\ jobs[1].exchanges = 1

\* the module's report of a refused command: ERROR or +CMS ERROR
Text_ERROR == <<"E", "R", "R", "O", "R">>

\* C29: the response is read only after the terminator was written, and the
\* verdict is the module's answer to the message submission: a response in
\* which the module reports an error, whatever OK replies to the probe and
\* the text-mode command precede it, is not confirmed.
C29_VerdictOnSubmission ==
    [][\A j \in Jobs, reponse \in Reponses :
          (jobs[j].pc = "read_all" /\ SerialReadAll(j, "ok", reponse)) =>
              /\ jobs[j].tx = WriteSeq
              /\ Contains(reponse, Text_ERROR) => jobs'[j].success = FALSE]_vars

\* C30: a successful registration allocates the slot and creates the contact,
\* marked as synchronised, and submits no command job.  The step that answers
\* 201 adds exactly one contact, carrying the answered index and
\* synchro_avec_canne = True, and leaves every job (its state, its handle on
\* the serial port and what it wrote) and the SMS log unchanged.
C30_RegistrationDispatchesNothing ==
    [][(response'.view = "register" /\ response'.status = 201 /\ reg' # reg) =>
          /\ jobs' = jobs
          /\ sms_logs' = sms_logs
          /\ \E k \in contacts' \ contacts :
                 /\ contacts' = contacts \cup {k}
                 /\ k.id_microcontroleur = response'.index
                 /\ k.id_microcontroleur \in Slots
                 /\ k.synchro_avec_canne = TRUE]_vars

\* a registration was answered 201 while a job holds the port open
C30_Witness ==
    /\ response.view = "register"
    /\ response.status = 201
    /\ jobs[1].pc = "write"
    /\ jobs[1].ser = "open"
    /\ jobs[1].written = 3

====
